---- MODULE Spec2Model ----
(***************************************************************************)
(* Model of the retry machinery of modules/banquepopulaire/browser.py:     *)
(* the retry decorator (retry.wrapper), the resumable iterator iter_retry  *)
(* and the login-in-progress counter no_login kept by no_need_login.       *)
(*                                                                         *)
(* One behaviour of Spec is one logical call of a retry-decorated method:  *)
(* the wrapper's eager invocations of the decorated function, then the     *)
(* consumer's successive next() calls on the returned iter_retry.  The     *)
(* site is the environment: every invocation of the decorated function     *)
(* (cb) and every pull from the iterator it returned has its outcome       *)
(* chosen nondeterministically.                                            *)
(***************************************************************************)
EXTENDS Integers, Sequences, FiniteSets, TLC

\* ------------------------------------------------------------- bounds ---
\* longest sequence an underlying producer yields
MaxLen == 2
\* cap on the number of invocations of the decorated function in a behaviour
MaxCalls == 5

\* cap on the number of do_login calls in a behaviour
MaxLogins == 5

\* cap on the number of responses classified in a behaviour
MaxNavs == 5

\* calls of go_on_accounts_list explored on one browser
MaxGoCalls == 3

\* pages of one listing, and records on one page, the site answers with
MaxPages == 3
MaxPerPage == 2

\* calls (login, wrapped operation) explored on a BNPorc browser
MaxBnpCalls == 3

\* calls, and listings fetched, explored on an HSBC browser
MaxHsCalls == 3
MaxFetches == 2

\* ---------------------------------------------------------- constants ---
\* retry(exc_check, tries=4)
Tries == 4

\* the records a site may serve, and the simple values a function may return
Records == {"A", "B"}
Values == {"v", "w"}

\* exceptions the site-facing code raises: the designated transient one and
\* one that is not an instance of it
ProducerExc == {"LoggedOut", "BrokenPageError"}

RECURSIVE SeqsUpTo(_)
SeqsUpTo(n) ==
    IF n = 0 THEN {<<>>}
    ELSE LET S == SeqsUpTo(n - 1)
         IN  S \cup {Append(s, r) : s \in {t \in S : Len(t) = n - 1}, r \in Records}

\* the sequences a freshly created producer may be about to yield
Producers == SeqsUpTo(MaxLen)

VARIABLES
    pc,         \* position: "wrapper", "idle", "enter", "replay", "pull", "done"
    i,          \* retry.wrapper: loop variable of xrange(tries, 0, -1)
    it,         \* iter_retry.it: "None" or "iter"
    data,       \* what the producer behind iter_retry.it yields when not failing
    pos,        \* how many records that producer has yielded
    items,      \* iter_retry.items
    remaining,  \* iter_retry.remaining
    excCheck,   \* iter_retry.exc_check / retry's exc_check
    nb,         \* __next__: index of the replay loop
    result,     \* what the last finished call gave its caller
    consumer,   \* history: the records returned to the consumer, in order
    calls,      \* history: number of invocations of the decorated function
    fails,      \* history: number of exc_check exceptions raised by the site
    truth,      \* history: <<s>> while every producer created had sequence s
    det,        \* history: every producer created had the same sequence
    clean,      \* history: the site raised no exception outside exc_check
    ev,         \* history: the outcome of the site interaction of the last step
    seen,       \* history: the permanent errors raised so far
    no_login,   \* BanquePopulaire.no_login
    page,       \* kind of the browser's current page
    where,      \* routine the browser executes: "caller", "do_login"
    lpc,        \* position inside do_login
    lexc,       \* exception raised by the last navigation or by do_login
    logins,     \* history: number of do_login calls started
    gate,       \* need_login around the decorated function: its position
    url,        \* the URL of the last response, as the rules see it
    navs,       \* history: number of classified responses
    ACCOUNT_URLS, \* BanquePopulaire.ACCOUNT_URLS as the instance sees it
    cands,      \* go_on_accounts_list: the list the for loop iterates over
    gpc,        \* go_on_accounts_list: "idle" outside, "loop" inside the loop
    tried,      \* history: the candidates requested by the current call
    outs,       \* history: what each of these requests gave
    gres,       \* how the last call of go_on_accounts_list ended
    gcalls,     \* history: number of calls of go_on_accounts_list
    popup,      \* the accepted page displayed a pop-up and was requested again
    gform,      \* the short-list form was submitted
    op,         \* paginated operation running: "none", "accounts", "history"
    ppc,        \* its position: "idle", "page", "iban", "hcheck", "hextract", "done"
    cur,        \* what the loop over the current page or list still has to visit
    surfaced,   \* history: the records of the pages extracted, in extraction order
    yielded,    \* history: the records the generator yielded, in order
    pres,       \* how the operation ended
    pnavs,      \* history: number of pages of the listing requested
    get_iban,   \* get_accounts_list: the get_iban argument
    next_pages, \* get_accounts_list: next_pages
    accounts,   \* get_accounts_list: accounts
    followed,   \* history: the next-page descriptors followed, in order
    fresh,      \* history: number of next-page descriptors surfaced
    ibans,      \* history: the accounts whose IBAN page was requested
    here,       \* get_history: what transactions_page.is_here() last gave
    np,         \* get_history: what get_next_params() last gave
    is_logging, \* BNPorc.is_logging
    bpage,      \* BNPorc: kind of the current page
    bpc,        \* BNPorc: "out", or inside "submit" (login), "change", "again"
    bres,       \* BNPorc: how the last call ended
    password,   \* BNPorc.password
    rotating_password, \* BNPorc.rotating_password
    has_cb,     \* BNPorc.password_changed_cb is set
    cblog,      \* history: arguments of the password_changed_cb calls of a call
    invs,       \* history: invocations of the wrapped operation in a call
    swaps,      \* history: password switches in a call
    pw0,        \* history: password when the call started
    rot0,       \* history: rotating_password when the call started
    first,      \* history: outcome of the first invocation of a call
    chg,        \* history: outcome of change_password in a call
    bcalls,     \* history: number of calls on the BNPorc browser
    accounts_list, \* HSBC.accounts_list: account id -> cached account object
    app_gone,   \* HSBC.app_gone
    hspc,       \* HSBC.get_history: "out", or inside at "gone", "renav"
    hop,        \* HSBC: the operation of the last step
    hid,        \* HSBC.get_history: id of the account asked for
    hsres,      \* HSBC: how the last call ended
    fetches,    \* history: number of listings fetched by update_accounts_list
    hnavs,      \* history: requests of the account link in the last get_history
    refreshes,  \* history: refreshes of the cache in the last get_history
    navlink,    \* history: the link last requested by get_history
    liexc,      \* history: how _go_to_life_insurance ended in the last call
    hyield,     \* history: ids of the accounts get_accounts_list last yielded
    hcalls      \* history: number of calls on the HSBC browser

retryVars == <<pc, i, it, data, pos, items, remaining, excCheck, nb, result,
               consumer, calls, fails, truth, det, clean, ev, seen>>

loginVars == <<no_login, page, where, lpc, lexc, logins>>

gateVars == <<gate>>

navVars == <<url, navs>>

goVars == <<ACCOUNT_URLS, cands, gpc, tried, outs, gres, gcalls, popup, gform>>

\* the variables of the other browsers and operations
pagVars == <<op, ppc, cur, surfaced, yielded, pres, pnavs, get_iban,
             next_pages, accounts, followed, fresh, ibans, here, np>>

bnpVars == <<is_logging, bpage, bpc, bres, password, rotating_password, has_cb,
             cblog, invs, swaps, pw0, rot0, first, chg, bcalls>>

hsbcVars == <<accounts_list, app_gone, hspc, hop, hid, hsres, fetches, hnavs,
              refreshes, navlink, liexc, hyield, hcalls>>

restVars == <<goVars, pagVars, bnpVars, hsbcVars>>

coreVars == <<retryVars, loginVars, gateVars, navVars>>

\* what the steps of one operation leave alone
notGoVars == <<coreVars, pagVars, bnpVars, hsbcVars>>
notPagVars == <<coreVars, goVars, bnpVars, hsbcVars>>
notBnpVars == <<coreVars, goVars, pagVars, hsbcVars>>
notHsbcVars == <<coreVars, goVars, pagVars, bnpVars>>

vars == <<pc, i, it, data, pos, items, remaining, excCheck, nb, result,
          consumer, calls, fails, truth, det, clean, ev, seen,
          no_login, page, where, lpc, lexc, logins, gate, url, navs,
          ACCOUNT_URLS, cands, gpc, tried, outs, gres, gcalls, popup, gform,
          op, ppc, cur, surfaced, yielded, pres, pnavs, get_iban,
          next_pages, accounts, followed, fresh, ibans, here, np,
          is_logging, bpage, bpc, bres, password, rotating_password, has_cb,
          cblog, invs, swaps, pw0, rot0, first, chg, bcalls,
          accounts_list, app_gone, hspc, hop, hid, hsres, fetches, hnavs,
          refreshes, navlink, liexc, hyield, hcalls>>

\* ------------------------------------------------------------ helpers ---
Res(kind, val) == [kind |-> kind, val |-> val]
Ev(src, out) == [src |-> src, out |-> out]
NoRes == Res("none", "")

\* a bare `except:` takes every exception
IsInstanceAny(e, cls) == TRUE

\* `except exc_check`: the handler takes every instance of the class
IsInstance(e, cls) == cls = "Exception" \/ e = cls

\* __next__: sent.to_dict() == new.to_dict(), or sent == new
Equal(sent, new) == sent = new

\* a check that lets a budget of 0 through
BudgetExhaustedStrict(r) == r < 0

\* __next__: `if self.remaining <= 0`
BudgetExhausted(r) == r <= 0

\* wrapper: the next value of xrange(tries, 0, -1) after j
XRangeNext(j) == j - 1

\* a loop that runs once more, for j = 0
XRangeHasZero(j) == j >= 0

\* wrapper: xrange(tries, 0, -1) still has the value j
XRangeHas(j) == j > 0

\* wrapper: iter_retry(cb, value=ret, remaining=i, ...)
WrapperRemaining(j) == j

\* __next__: `self.remaining -= 1`
Decrement(r) == r - 1

\* the records the current producer has yielded
Yielded == SubSeq(data, 1, pos)

IsPrefix(s, t) == Len(s) <= Len(t) /\ SubSeq(t, 1, Len(s)) = s

\* history kept when the decorated function returns a producer yielding d
NoteProducer(d) ==
    /\ det' = (det /\ (truth = <<>> \/ truth = <<d>>))
    /\ truth' = IF det' THEN <<d>> ELSE <<>>

\* history kept when the site raises e
NoteRaise(e) ==
    /\ fails' = IF IsInstance(e, excCheck) THEN fails + 1 ELSE fails
    /\ clean' = (clean /\ IsInstance(e, excCheck))

\* --------------------------------------------------------------- init ---
RetryInit ==
    /\ pc = "wrapper"
    /\ i = Tries
    /\ it = "None"
    /\ data = <<>>
    /\ pos = 0
    /\ items = <<>>
    /\ remaining = Tries
    /\ nb = -1
    /\ result = NoRes
    /\ consumer = <<>>
    /\ calls = 0
    /\ fails = 0
    /\ truth = <<>>
    /\ det = TRUE
    /\ clean = TRUE
    /\ ev = Ev("none", "none")
    /\ seen = {}

\* `no_login = 0` in the class body; no page is loaded yet
LoginInit ==
    /\ no_login = 0
    /\ page = "None"
    /\ where = "caller"
    /\ lpc = "out"
    /\ lexc = "none"
    /\ logins = 0

\* no decorated function is being invoked; no response was classified
OtherInit ==
    /\ gate = "closed"
    /\ url = <<"none", "none">>
    /\ navs = 0

\* the class attribute ACCOUNT_URLS
ClassAccountUrls ==
    <<"mesComptes", "mesComptesPRO", "maSyntheseGratuite", "accueilSynthese",
      "equipementComplet">>

GoInit ==
    /\ ACCOUNT_URLS = ClassAccountUrls
    /\ cands = <<>>
    /\ gpc = "idle"
    /\ tried = <<>>
    /\ outs = <<>>
    /\ gres = "none"
    /\ gcalls = 0
    /\ popup = FALSE
    /\ gform = FALSE

\* no paginated operation was called yet
PagInit ==
    /\ op = "none"
    /\ ppc = "idle"
    /\ cur = <<>>
    /\ surfaced = <<>>
    /\ yielded = <<>>
    /\ pres = "none"
    /\ pnavs = 0
    /\ get_iban = FALSE
    /\ next_pages = <<>>
    /\ accounts = <<>>
    /\ followed = <<>>
    /\ fresh = 0
    /\ ibans = <<>>
    /\ here = FALSE
    /\ np = "unset"

\* the passwords a BNPorc browser is built with
Passwords == {"111111", "222222"}

\* BNPorc(username, password, rotating_password=..., password_changed_cb=...)
\* with the rotating password taken from rots and a callback set or not as
\* cbs says
BnpBuilt(rots, cbs) ==
    /\ is_logging = FALSE
    /\ bpage = "None"
    /\ bpc = "out"
    /\ bres = "none"
    /\ password = "111111"
    /\ rotating_password \in rots
    /\ has_cb \in cbs
    /\ cblog = <<>>
    /\ invs = 0
    /\ swaps = 0
    /\ pw0 = "111111"
    /\ rot0 = rotating_password
    /\ first = "none"
    /\ chg = "none"
    /\ bcalls = 0

\* BNPorc(username, password): both keyword arguments default to None
BnpInit == BnpBuilt({"None"}, {FALSE})

\* the ids of the accounts the HSBC site may list
AccountIds == {"a1", "a2"}

\* HSBC.__init__: self.accounts_list = dict(); app_gone = False
HsbcInit ==
    /\ accounts_list = [id \in {} |-> 0]
    /\ app_gone = FALSE
    /\ hspc = "out"
    /\ hop = "none"
    /\ hid = "a1"
    /\ hsres = "none"
    /\ fetches = 0
    /\ hnavs = 0
    /\ refreshes = 0
    /\ navlink = 0
    /\ liexc = "none"
    /\ hyield = {}
    /\ hcalls = 0

RestInit ==
    /\ GoInit
    /\ PagInit
    /\ BnpInit
    /\ HsbcInit

\* every use of the decorator in the browser is @retry(LoggedOut)
Init ==
    /\ RetryInit
    /\ excCheck = "LoggedOut"
    /\ LoginInit
    /\ OtherInit
    /\ RestInit

\* ------------------------------------------------------ retry.wrapper ---
\* ret = cb() raises e
WrapperRaises(e) ==
    /\ pc = "wrapper"
    /\ calls < MaxCalls
    /\ calls' = calls + 1
    /\ NoteRaise(e)
    /\ ev' = Ev("factory", e)
    /\ IF IsInstance(e, excCheck)
       THEN \* except exc_check: continue; the loop ends with the raise
            /\ i' = XRangeNext(i)
            /\ IF XRangeHas(XRangeNext(i))
               THEN /\ pc' = "wrapper"
                    /\ result' = NoRes
                    /\ seen' = seen
               ELSE /\ pc' = "done"
                    /\ result' = Res("exhausted", "")
                    /\ seen' = seen \cup {"exhausted"}
       ELSE /\ pc' = "done"
            /\ result' = Res("raised", e)
            /\ UNCHANGED <<i, seen>>
    /\ UNCHANGED <<it, data, pos, items, remaining, excCheck, nb, consumer,
                   truth, det>>

\* ret = cb() returns a value without __iter__
WrapperValue(v) ==
    /\ pc = "wrapper"
    /\ calls < MaxCalls
    /\ calls' = calls + 1
    /\ ev' = Ev("factory", v)
    /\ pc' = "done"
    /\ result' = Res("value", v)
    /\ UNCHANGED <<i, it, data, pos, items, remaining, excCheck, nb, consumer,
                   fails, truth, det, clean, seen>>

\* ret = cb() returns an iterator: return iter_retry(cb, value=ret, remaining=i)
WrapperIter(d) ==
    /\ pc = "wrapper"
    /\ calls < MaxCalls
    /\ calls' = calls + 1
    /\ ev' = Ev("factory", "iter")
    /\ NoteProducer(d)
    /\ it' = "iter"
    /\ data' = d
    /\ pos' = 0
    /\ items' = <<>>
    /\ remaining' = WrapperRemaining(i)
    /\ pc' = "idle"
    /\ result' = NoRes
    /\ UNCHANGED <<i, excCheck, nb, consumer, fails, clean, seen>>

\* ------------------------------------------------ iter_retry.__next__ ---
\* a next() call is at its first statement: called by the consumer ("idle")
\* or by `return next(self)` ("enter")
AtEntry == pc \in {"idle", "enter"}

\* a handler that also forgets the items already returned
RetryNextDropItems ==
    /\ it' = "None"
    /\ data' = <<>>
    /\ pos' = 0
    /\ remaining' = Decrement(remaining)
    /\ pc' = "enter"
    /\ result' = NoRes
    /\ items' = <<>>
    /\ UNCHANGED <<consumer, seen>>

\* `except self.exc_check`: self.it = None; self.remaining -= 1;
\* return next(self)
RetryNext ==
    /\ it' = "None"
    /\ data' = <<>>
    /\ pos' = 0
    /\ remaining' = Decrement(remaining)
    /\ pc' = "enter"
    /\ result' = NoRes
    /\ UNCHANGED <<items, consumer, seen>>

\* an exception leaves next() for the consumer
Propagate(r) ==
    /\ pc' = "idle"
    /\ result' = r
    /\ UNCHANGED <<it, items, remaining, consumer>>

\* if self.remaining <= 0: raise BrowserUnavailable('Site did not reply ...')
NextExhausted ==
    /\ AtEntry
    /\ BudgetExhausted(remaining)
    /\ Propagate(Res("exhausted", ""))
    /\ seen' = seen \cup {"exhausted"}
    /\ ev' = Ev("none", "none")
    /\ UNCHANGED <<i, data, pos, excCheck, nb, calls, fails, truth, det, clean>>

\* a recreation that resumes without consuming the previous items
RecreateIterNoReplay(d) ==
    /\ AtEntry
    /\ ~BudgetExhausted(remaining)
    /\ it = "None"
    /\ calls < MaxCalls
    /\ calls' = calls + 1
    /\ ev' = Ev("factory", "iter")
    /\ NoteProducer(d)
    /\ it' = "iter"
    /\ data' = d
    /\ pos' = 0
    /\ nb' = -1
    /\ pc' = "pull"
    /\ result' = NoRes
    /\ UNCHANGED <<i, items, remaining, excCheck, consumer, fails, clean, seen>>

\* if self.it is None: self.it = self.cb() returns an iterator; nb = -1
RecreateIter(d) ==
    /\ AtEntry
    /\ ~BudgetExhausted(remaining)
    /\ it = "None"
    /\ calls < MaxCalls
    /\ calls' = calls + 1
    /\ ev' = Ev("factory", "iter")
    /\ NoteProducer(d)
    /\ it' = "iter"
    /\ data' = d
    /\ pos' = 0
    /\ nb' = -1
    /\ pc' = IF Len(items) = 0 THEN "pull" ELSE "replay"
    /\ result' = NoRes
    /\ UNCHANGED <<i, items, remaining, excCheck, consumer, fails, clean, seen>>

\* if self.it is None: self.it = self.cb() raises e, outside any try block
RecreateRaises(e) ==
    /\ AtEntry
    /\ ~BudgetExhausted(remaining)
    /\ it = "None"
    /\ calls < MaxCalls
    /\ calls' = calls + 1
    /\ ev' = Ev("factory", e)
    /\ NoteRaise(e)
    /\ Propagate(Res("raised", e))
    /\ UNCHANGED <<i, data, pos, excCheck, nb, truth, det, seen>>

\* replay loop: new = next(self.it) yields a record
ReplayRecord ==
    /\ pc = "replay"
    /\ pos < Len(data)
    /\ LET k == nb + 1
           sent == items[k + 1]
           new == data[pos + 1]
       IN  /\ nb' = k
           /\ ev' = Ev("replay", "record")
           /\ IF Equal(sent, new)
              THEN /\ pos' = pos + 1
                   /\ pc' = IF k + 1 = Len(items) THEN "pull" ELSE "replay"
                   /\ result' = NoRes
                   /\ UNCHANGED <<it, data, items, remaining, consumer, seen>>
              ELSE \* raise BrowserUnavailable('Site replied inconsistently ...')
                   IF IsInstance("BrowserUnavailable", excCheck)
                   THEN RetryNext
                   ELSE /\ Propagate(Res("inconsistent", ""))
                        /\ pos' = pos + 1
                        /\ seen' = seen \cup {"inconsistent"}
                        /\ UNCHANGED data
    /\ UNCHANGED <<i, excCheck, calls, fails, truth, det, clean>>

\* a replay whose StopIteration leaves next() as the end of the data
ReplayStopAsEnd ==
    /\ pc = "replay"
    /\ pos = Len(data)
    /\ ev' = Ev("replay", "StopIteration")
    /\ Propagate(Res("stop", ""))
    /\ UNCHANGED <<i, data, pos, excCheck, nb, calls, fails, truth, det, clean,
                   seen>>

\* replay loop: new = next(self.it) raises StopIteration;
\* except StopIteration: raise BrowserUnavailable('Site replied fewer ...')
ReplayStop ==
    /\ pc = "replay"
    /\ pos = Len(data)
    /\ ev' = Ev("replay", "StopIteration")
    /\ Propagate(Res("short", ""))
    /\ seen' = seen \cup {"short"}
    /\ UNCHANGED <<i, data, pos, excCheck, nb, calls, fails, truth, det, clean>>

\* replay loop: new = next(self.it) raises e
ReplayRaises(e) ==
    /\ pc = "replay"
    /\ ev' = Ev("replay", e)
    /\ NoteRaise(e)
    /\ IF IsInstance(e, excCheck)
       THEN RetryNext
       ELSE \* a generator that raised is finished
            /\ Propagate(Res("raised", e))
            /\ data' = Yielded
            /\ UNCHANGED <<pos, seen>>
    /\ UNCHANGED <<i, excCheck, nb, calls, truth, det>>

\* the statement `obj = next(self.it)` is reached: after the replay, or at
\* once when self.it is set
AtPull ==
    \/ pc = "pull"
    \/ AtEntry /\ ~BudgetExhausted(remaining) /\ it = "iter"

\* obj = next(self.it) yields: self.items.append(obj); return obj
PullRecord ==
    /\ AtPull
    /\ pos < Len(data)
    /\ LET obj == data[pos + 1]
       IN  /\ items' = Append(items, obj)
           /\ consumer' = Append(consumer, obj)
           /\ result' = Res("record", obj)
    /\ pos' = pos + 1
    /\ pc' = "idle"
    /\ ev' = Ev("pull", "record")
    /\ UNCHANGED <<i, it, data, remaining, excCheck, nb, calls, fails, truth,
                   det, clean, seen>>

\* obj = next(self.it) raises StopIteration
PullStop ==
    /\ AtPull
    /\ pos = Len(data)
    /\ ev' = Ev("pull", "StopIteration")
    /\ IF IsInstance("StopIteration", excCheck)
       THEN RetryNext
       ELSE /\ Propagate(Res("stop", ""))
            /\ UNCHANGED <<data, pos, seen>>
    /\ UNCHANGED <<i, excCheck, nb, calls, fails, truth, det, clean>>

\* obj = next(self.it) raises e
PullRaises(e) ==
    /\ AtPull
    /\ ev' = Ev("pull", e)
    /\ NoteRaise(e)
    /\ IF IsInstance(e, excCheck)
       THEN RetryNext
       ELSE \* a generator that raised is finished
            /\ Propagate(Res("raised", e))
            /\ data' = Yielded
            /\ UNCHANGED <<pos, seen>>
    /\ UNCHANGED <<i, excCheck, nb, calls, truth, det>>

\* ------------------------------------------- no_need_login / do_login ---
\* page kinds of the URL table that the login flow passes through
PageKinds == {"LoginPage", "Login2Page", "RedirectPage", "HomePage",
              "IndexPage", "AccountsPage", "UnavailablePage"}

\* a page that looks like the logged-out state
LooksLoggedOut(p) == p = "LoginPage"

\* a page of the authenticated session (page.logged)
PageLogged(p) == p \in {"HomePage", "IndexPage", "AccountsPage"}

\* loading a page: LoggedOut is raised on a logged-out page unless a login
\* is in progress
OnLoadRaises(p, n) == LooksLoggedOut(p) /\ n = 0

\* a wrapper that enters do_login without counting the login in progress
LoginEnterUncounted ==
    /\ where = "caller"
    /\ logins < MaxLogins
    /\ logins' = logins + 1
    /\ where' = "do_login"
    /\ lpc' = "location"
    /\ lexc' = "none"
    /\ UNCHANGED <<no_login, page>>

\* no_need_login.wrapper: browser.no_login += 1, then do_login is entered
LoginEnter ==
    /\ where = "caller"
    /\ logins < MaxLogins
    /\ logins' = logins + 1
    /\ no_login' = no_login + 1
    /\ where' = "do_login"
    /\ lpc' = "location"
    /\ lexc' = "none"
    /\ UNCHANGED page

\* do_login: self.location(self.BASEURL) lands on a page of kind p
LoginLocation(p) ==
    /\ where = "do_login"
    /\ lpc = "location"
    /\ page' = p
    /\ IF OnLoadRaises(p, no_login)
       THEN lpc' = "finally" /\ lexc' = "LoggedOut"
       ELSE lpc' = "submit" /\ lexc' = "none"
    /\ UNCHANGED <<no_login, where, logins>>

\* do_login: self.page.login(self.username, self.password) lands on p
LoginSubmit(p) ==
    /\ where = "do_login"
    /\ lpc = "submit"
    /\ page' = p
    /\ IF OnLoadRaises(p, no_login)
       THEN lpc' = "finally" /\ lexc' = "LoggedOut"
       ELSE lpc' = "check" /\ lexc' = "none"
    /\ UNCHANGED <<no_login, where, logins>>

\* do_login: if self.login_page.is_here(): raise BrowserIncorrectPassword()
LoginCheck ==
    /\ where = "do_login"
    /\ lpc = "check"
    /\ lpc' = "finally"
    /\ lexc' = IF page = "LoginPage" THEN "BrowserIncorrectPassword" ELSE "none"
    /\ UNCHANGED <<no_login, page, where, logins>>

\* a wrapper that decrements only when do_login returned
LoginFinallyOnReturn ==
    /\ where = "do_login"
    /\ lpc = "finally"
    /\ no_login' = IF lexc = "none" THEN no_login - 1 ELSE no_login
    /\ where' = "caller"
    /\ lpc' = "out"
    /\ UNCHANGED <<page, lexc, logins>>

\* no_need_login.wrapper: finally: browser.no_login -= 1
LoginFinally ==
    /\ where = "do_login"
    /\ lpc = "finally"
    /\ no_login' = no_login - 1
    /\ where' = "caller"
    /\ lpc' = "out"
    /\ UNCHANGED <<page, lexc, logins>>

\* a navigation of an operation outside do_login lands on a page of kind p
OpNavigate(p) ==
    /\ where = "caller"
    /\ page' = p
    /\ lexc' = IF OnLoadRaises(p, no_login) THEN "LoggedOut" ELSE "none"
    /\ UNCHANGED <<no_login, where, lpc, logins>>

\* ------------------------------------- need_login around the operation ---
\* The decorated function of @retry(LoggedOut) is the need_login wrapper of
\* the operation: every cb() first passes the login gate, then runs the
\* operation.  gate is "closed" outside cb(), "login" while the gate runs
\* do_login, "failed" when do_login raised, "open" when the operation may run.

\* the retry machinery is about to invoke the decorated function
AtFactory ==
    \/ pc = "wrapper"
    \/ AtEntry /\ ~BudgetExhausted(remaining) /\ it = "None"

\* the page the browser is on after a step of the operation with outcome out
PageAfter(out) == IF out = "LoggedOut" THEN "LoginPage" ELSE "AccountsPage"

\* the operation ran a step with outcome out; no login is involved
OperationFrame(out) ==
    /\ page' = PageAfter(out)
    /\ UNCHANGED <<no_login, where, lpc, lexc, logins>>

\* need_login: the session is not logged in: browser.do_login()
GateLogin ==
    /\ gate = "closed"
    /\ AtFactory
    /\ calls < MaxCalls
    /\ ~PageLogged(page)
    /\ LoginEnter
    /\ gate' = "login"

\* need_login: the session is logged in: the operation is called at once
GateSkip ==
    /\ gate = "closed"
    /\ AtFactory
    /\ calls < MaxCalls
    /\ where = "caller"
    /\ PageLogged(page)
    /\ gate' = "open"
    /\ UNCHANGED loginVars

\* do_login is left: the gate calls the operation, or the exception of
\* do_login leaves the gate
GateLoginDone ==
    /\ gate = "login"
    /\ LoginFinally
    /\ gate' = IF lexc = "none" THEN "open" ELSE "failed"

\* ---------------------------------------------------------- URL rules ---
\* A URL is <<route, arg>>: the path of the request and the value of its
\* distinguishing query parameter (taskInfoOID for StartTask.do,
\* dialogActionPerformed for ContinueTask.do), cut into the pieces the
\* patterns tell apart.  A pattern ending in `.*` matches every value that
\* starts with its pieces.
Rule(route, arg, kind) == [route |-> route, arg |-> arg, kind |-> kind]

\* the rule table with error_page registered before transactions_page
BPRulesErrorFirst ==
    << Rule("auth/UI/Login", <<>>, "LoginPage"),
       Rule("Login.do", <<>>, "IndexPage"),
       Rule("StartTask.do", <<"mesComptes">>, "AccountsPage"),
       Rule("StartTask.do", <<"maSyntheseGratuite">>, "AccountsPage"),
       Rule("StartTask.do", <<"accueil", "Synthese">>, "AccountsPage"),
       Rule("StartTask.do", <<"equipementComplet">>, "AccountsPage"),
       Rule("ContinueTask.do", <<"VUE_COMPLETE">>, "AccountsPage"),
       Rule("StartTask.do", <<"cyberIBAN">>, "IbanPage"),
       Rule("ContinueTask.do", <<"DETAIL_IBAN_RIB">>, "IbanPage"),
       Rule("ContinueTask.do", <<"EQUIPEMENT_COMPLET">>, "AccountsFullPage"),
       Rule("ContinueTask.do", <<"ENCOURS_COMPTE">>, "CardsPage"),
       Rule("ContinueTask.do", <<>>, "ErrorPage"),
       Rule("ContinueTask.do", <<"SELECTION_ENCOURS_CARTE">>, "TransactionsPage"),
       Rule("ContinueTask.do", <<"SOLDE">>, "TransactionsPage"),
       Rule("ContinueTask.do", <<"CONTRAT">>, "TransactionsPage"),
       Rule("Page.do", <<>>, "TransactionsPage"),
       Rule("Sort.do", <<>>, "TransactionsPage"),
       Rule("s3f-web", <<>>, "UnavailablePage"),
       Rule("StartTask.do", <<"accueil">>, "AdvisorPage"),
       Rule("StartTask.do", <<"contacter">>, "AdvisorPage") >>

\* the URL attributes of BanquePopulaire for the bank's own site, in the
\* order of the class body
BPRules ==
    << Rule("auth/UI/Login", <<>>, "LoginPage"),
       Rule("Login.do", <<>>, "IndexPage"),
       Rule("StartTask.do", <<"mesComptes">>, "AccountsPage"),
       Rule("StartTask.do", <<"maSyntheseGratuite">>, "AccountsPage"),
       Rule("StartTask.do", <<"accueil", "Synthese">>, "AccountsPage"),
       Rule("StartTask.do", <<"equipementComplet">>, "AccountsPage"),
       Rule("ContinueTask.do", <<"VUE_COMPLETE">>, "AccountsPage"),
       Rule("StartTask.do", <<"cyberIBAN">>, "IbanPage"),
       Rule("ContinueTask.do", <<"DETAIL_IBAN_RIB">>, "IbanPage"),
       Rule("ContinueTask.do", <<"EQUIPEMENT_COMPLET">>, "AccountsFullPage"),
       Rule("ContinueTask.do", <<"ENCOURS_COMPTE">>, "CardsPage"),
       Rule("ContinueTask.do", <<"SELECTION_ENCOURS_CARTE">>, "TransactionsPage"),
       Rule("ContinueTask.do", <<"SOLDE">>, "TransactionsPage"),
       Rule("ContinueTask.do", <<"CONTRAT">>, "TransactionsPage"),
       Rule("Page.do", <<>>, "TransactionsPage"),
       Rule("Sort.do", <<>>, "TransactionsPage"),
       Rule("ContinueTask.do", <<>>, "ErrorPage"),
       Rule("s3f-web", <<>>, "UnavailablePage"),
       Rule("StartTask.do", <<"accueil">>, "AdvisorPage"),
       Rule("StartTask.do", <<"contacter">>, "AdvisorPage") >>

\* the URLs the site answers with
Urls ==
    {<<"StartTask.do", a>> : a \in {<<"mesComptes">>, <<"mesComptes", "PRO">>,
                                     <<"maSyntheseGratuite">>,
                                     <<"accueil", "Synthese">>,
                                     <<"equipementComplet">>, <<"cyberIBAN">>,
                                     <<"accueil">>, <<"contacter">>,
                                     <<"virement">>}}
    \cup {<<"ContinueTask.do", a>> : a \in {<<>>, <<"VUE_COMPLETE">>,
                                            <<"DETAIL_IBAN_RIB">>,
                                            <<"EQUIPEMENT_COMPLET">>,
                                            <<"ENCOURS_COMPTE">>,
                                            <<"SELECTION_ENCOURS_CARTE">>,
                                            <<"SOLDE">>, <<"CONTRAT">>,
                                            <<"VIREMENT">>}}
    \cup {<<r, <<>>>> : r \in {"auth/UI/Login", "Login.do", "Page.do",
                               "Sort.do", "s3f-web", "logout.do"}}

\* the pattern of rule r matches the URL u
Matches(r, u) == r.route = u[1] /\ IsPrefix(r.arg, u[2])

\* the page kind of a response: the kind of the first rule, in registration
\* order, whose pattern matches; no page when none does
Classify(rules, u) ==
    LET hits == {k \in 1..Len(rules) : Matches(rules[k], u)}
    IN  IF hits = {} THEN "unknown"
        ELSE rules[CHOOSE k \in hits : \A j \in hits : k <= j].kind

\* self.location(...): the response for u becomes the current page
Location(u) ==
    /\ navs < MaxNavs
    /\ navs' = navs + 1
    /\ url' = u
    /\ page' = Classify(BPRules, u)
    /\ UNCHANGED <<no_login, where, lpc, lexc, logins>>

\* ------------------------------------------------ go_on_accounts_list ---
\* what the request of a candidate gives: a page that is not an error page,
\* an error page, or a LoggedOut raised while the response is loaded
GoOutcomes == {"page", "error", "LoggedOut"}

\* the loop goes on after a page that is not an error page
GoLoopEndsNever(out) == out = "LoggedOut"

\* the for loop is left on the first response that is not an error page
\* (break) or by the exception of the request
GoLoopEnds(out) == out # "error"

\* the table is left as it is
NarrowedKeep(c) == ACCOUNT_URLS

\* self.ACCOUNT_URLS = [taskInfoOID]
Narrowed(c) == <<c>>

\* go_on_accounts_list(): for taskInfoOID in self.ACCOUNT_URLS
GoCall ==
    /\ gpc = "idle"
    /\ gcalls < MaxGoCalls
    /\ gcalls' = gcalls + 1
    /\ gpc' = "loop"
    /\ cands' = ACCOUNT_URLS
    /\ tried' = <<>>
    /\ outs' = <<>>
    /\ gres' = "none"
    /\ popup' = FALSE
    /\ gform' = FALSE
    /\ UNCHANGED ACCOUNT_URLS

\* one pass of the loop body: the candidate is requested; an accepted page
\* is requested again when it displays a pop-up (pop), the table becomes
\* the accepted candidate and the short-list form is submitted (short)
GoRequest(out, pop, short) ==
    /\ gpc = "loop"
    /\ Len(tried) < Len(cands)
    /\ tried' = Append(tried, cands[Len(tried) + 1])
    /\ outs' = Append(outs, out)
    /\ IF GoLoopEnds(out)
         THEN /\ gpc' = "idle"
              /\ IF out = "page"
                   THEN /\ gres' = "ok"
                        /\ ACCOUNT_URLS' = Narrowed(cands[Len(tried) + 1])
                        /\ popup' = pop
                        /\ gform' = short
                   ELSE /\ gres' = out
                        /\ pop = FALSE
                        /\ short = FALSE
                        /\ UNCHANGED <<ACCOUNT_URLS, popup, gform>>
         ELSE /\ pop = FALSE
              /\ short = FALSE
              /\ UNCHANGED <<ACCOUNT_URLS, gpc, gres, popup, gform>>
    /\ UNCHANGED <<cands, gcalls>>

\* the else clause of the loop: raise BrokenPageError
GoExhausted ==
    /\ gpc = "loop"
    /\ Len(tried) = Len(cands)
    /\ gpc' = "idle"
    /\ gres' = "BrokenPageError"
    /\ UNCHANGED <<ACCOUNT_URLS, cands, tried, outs, gcalls, popup, gform>>

\* --------------------------------------------------------- pagination ---
\* the n records (accounts, transactions) the extraction finds on page p
Recs(p, n) == [k \in 1..n |-> <<p, k>>]

\* the m next-page descriptors a page appends when f were surfaced before
NewDescs(f, m) == [k \in 1..m |-> f + k]

\* next_pages is read without being shortened
PoppedNothing(s) == s

\* next_pages.pop(): the list without its last element
Popped(s) == SubSeq(s, 1, Len(s) - 1)

\* the accounts are visited from the last one
IbanOrderLastFirst(accs) ==
    IF accs = <<>> THEN <<>>
    ELSE <<accs[Len(accs)]>> \o SubSeq(accs, 1, Len(accs) - 1)

\* for a in accounts
IbanOrder(accs) == accs

\* get_accounts_list(get_iban=gi): go_on_accounts_list() reaches the listing
\* (out = "ok") or raises; the first page has n accounts and m descriptors
AccStart(gi, out, n, m) ==
    /\ op = "none"
    /\ op' = "accounts"
    /\ get_iban' = gi
    /\ IF out = "ok"
         THEN /\ ppc' = "page"
              /\ pnavs' = 1
              /\ cur' = Recs(0, n)
              /\ surfaced' = Recs(0, n)
              /\ next_pages' = NewDescs(0, m)
              /\ fresh' = m
              /\ UNCHANGED pres
         ELSE /\ n = 0
              /\ m = 0
              /\ ppc' = "done"
              /\ pres' = out
              /\ UNCHANGED <<pnavs, cur, surfaced, next_pages, fresh>>
    /\ UNCHANGED <<yielded, accounts, followed, ibans, here, np>>

\* one pass of "for a in self.page.iter_accounts(next_pages)"
AccNext ==
    /\ op = "accounts"
    /\ ppc = "page"
    /\ cur # <<>>
    /\ cur' = Tail(cur)
    /\ IF get_iban
         THEN accounts' = Append(accounts, Head(cur)) /\ UNCHANGED yielded
         ELSE yielded' = Append(yielded, Head(cur)) /\ UNCHANGED accounts
    /\ UNCHANGED <<op, ppc, surfaced, pres, pnavs, get_iban, next_pages,
                   followed, fresh, ibans, here, np>>

\* one pass of "while len(next_pages) > 0" up to the second for loop: the
\* last descriptor is taken and requested (after go_on_accounts_list()
\* when the full page is not the current one, and after the prevAction
\* request when the descriptor has one); a request may raise, the page
\* reached has n accounts and m further descriptors
AccFollow(out, n, m) ==
    /\ op = "accounts"
    /\ ppc = "page"
    /\ cur = <<>>
    /\ next_pages # <<>>
    /\ pnavs < MaxPages
    /\ followed' = Append(followed, next_pages[Len(next_pages)])
    /\ IF out = "ok"
         THEN /\ fresh + m < MaxPages
              /\ pnavs' = pnavs + 1
              /\ cur' = Recs(next_pages[Len(next_pages)], n)
              /\ surfaced' = surfaced \o Recs(next_pages[Len(next_pages)], n)
              /\ next_pages' = Popped(next_pages) \o NewDescs(fresh, m)
              /\ fresh' = fresh + m
              /\ UNCHANGED <<ppc, pres>>
         ELSE /\ n = 0
              /\ m = 0
              /\ next_pages' = Popped(next_pages)
              /\ ppc' = "done"
              /\ pres' = out
              /\ UNCHANGED <<pnavs, cur, surfaced, fresh>>
    /\ UNCHANGED <<op, yielded, get_iban, accounts, ibans, here, np>>

\* the while loop is left: "if get_iban: for a in accounts", else the
\* generator ends
AccListed ==
    /\ op = "accounts"
    /\ ppc = "page"
    /\ cur = <<>>
    /\ next_pages = <<>>
    /\ IF get_iban
         THEN ppc' = "iban" /\ cur' = IbanOrder(accounts) /\ UNCHANGED pres
         ELSE ppc' = "done" /\ pres' = "end" /\ UNCHANGED cur
    /\ UNCHANGED <<op, surfaced, yielded, pnavs, get_iban, next_pages,
                   accounts, followed, fresh, ibans, here, np>>

\* a.iban = self.get_iban_number(a); yield a: the IBAN page is requested,
\* and the account is yielded unless the request raised
AccIban(out) ==
    /\ op = "accounts"
    /\ ppc = "iban"
    /\ cur # <<>>
    /\ ibans' = Append(ibans, Head(cur))
    /\ IF out = "ok"
         THEN /\ yielded' = Append(yielded, Head(cur))
              /\ cur' = Tail(cur)
              /\ UNCHANGED <<ppc, pres>>
         ELSE /\ ppc' = "done"
              /\ pres' = out
              /\ UNCHANGED <<yielded, cur>>
    /\ UNCHANGED <<op, surfaced, pnavs, get_iban, next_pages, accounts,
                   followed, fresh, here, np>>

\* "for a in accounts" is over: the generator ends
AccIbanEnd ==
    /\ op = "accounts"
    /\ ppc = "iban"
    /\ cur = <<>>
    /\ ppc' = "done"
    /\ pres' = "end"
    /\ UNCHANGED <<op, cur, surfaced, yielded, pnavs, get_iban, next_pages,
                   accounts, followed, fresh, ibans, here, np>>

\* get_history(account) up to the while loop: the operation ends at once
\* (no parameters, no page, no operations: out = "empty"), the request
\* raises, or the first page, with n transactions, is the current page
HistStart(out, n) ==
    /\ op = "none"
    /\ op' = "history"
    /\ IF out = "page"
         THEN /\ ppc' = "hcheck"
              /\ pnavs' = 1
              /\ cur' = Recs(1, n)
              /\ UNCHANGED pres
         ELSE /\ n = 0
              /\ ppc' = "done"
              /\ pres' = IF out = "empty" THEN "end" ELSE out
              /\ UNCHANGED <<pnavs, cur>>
    /\ UNCHANGED <<surfaced, yielded, get_iban, next_pages, accounts,
                   followed, fresh, ibans, here, np>>

\* assert self.transactions_page.is_here()
HistAssert(h) ==
    /\ op = "history"
    /\ ppc = "hcheck"
    /\ here' = h
    /\ IF h
         THEN /\ ppc' = "hextract"
              /\ surfaced' = surfaced \o cur
              /\ UNCHANGED <<pres, cur>>
         ELSE /\ ppc' = "done"
              /\ pres' = "AssertionError"
              /\ cur' = <<>>
              /\ UNCHANGED surfaced
    /\ UNCHANGED <<op, yielded, pnavs, get_iban, next_pages, accounts,
                   followed, fresh, ibans, np>>

\* one pass of "for tr in self.page.get_history(account, coming): yield tr"
HistYield ==
    /\ op = "history"
    /\ ppc = "hextract"
    /\ cur # <<>>
    /\ yielded' = Append(yielded, Head(cur))
    /\ cur' = Tail(cur)
    /\ UNCHANGED <<op, ppc, surfaced, pres, pnavs, get_iban, next_pages,
                   accounts, followed, fresh, ibans, here, np>>

\* next_params = self.page.get_next_params(): return when it is None, else
\* the next page, with n transactions, is requested
HistNextParams(nx, out, n) ==
    /\ op = "history"
    /\ ppc = "hextract"
    /\ cur = <<>>
    /\ np' = nx
    /\ IF nx = "None"
         THEN /\ out = "page"
              /\ n = 0
              /\ ppc' = "done"
              /\ pres' = "end"
              /\ UNCHANGED <<pnavs, cur>>
         ELSE IF out = "page"
         THEN /\ pnavs < MaxPages
              /\ pnavs' = pnavs + 1
              /\ cur' = Recs(pnavs + 1, n)
              /\ ppc' = "hcheck"
              /\ UNCHANGED pres
         ELSE /\ n = 0
              /\ ppc' = "done"
              /\ pres' = out
              /\ UNCHANGED <<pnavs, cur>>
    /\ UNCHANGED <<op, surfaced, yielded, get_iban, next_pages, accounts,
                   followed, fresh, ibans, here>>

\* ------------------------------------------------------------- BNPorc ---
\* is_logged(): not on the login page, or a login is going on
IsLogged == bpage # "LoginPage" \/ is_logging

\* new_password.isdigit() and len(new_password) == 6
IsSixDigits(p) == p \in Passwords

\* the attributes are left as they are
SwappedNot(pw, new) == <<pw, new>>

\* self.password, self.rotating_password = (new_password, self.password)
Swapped(pw, new) == <<new, pw>>

\* login() up to self.is_logging = True: the login page is requested when it
\* is not the current page, and the request may raise; the histories of the
\* last call start again
BnpLogin(out) ==
    /\ bpc = "out"
    /\ bcalls < MaxBnpCalls
    /\ bcalls' = bcalls + 1
    /\ IF bpage # "LoginPage" /\ out = "raise"
         THEN /\ bres' = "BrowserUnavailable"
              /\ UNCHANGED <<is_logging, bpage, bpc>>
         ELSE /\ out = "LoginPage"
              /\ bpage' = "LoginPage"
              /\ is_logging' = TRUE
              /\ bpc' = "submit"
              /\ bres' = "none"
    /\ pw0' = password
    /\ rot0' = rotating_password
    /\ invs' = 0
    /\ swaps' = 0
    /\ cblog' = <<>>
    /\ first' = "none"
    /\ chg' = "none"
    /\ UNCHANGED <<password, rotating_password, has_cb>>

\* login() from self.page.login(...) on: the credentials are submitted, the
\* page after login is requested, and BrowserIncorrectPassword is raised if
\* it is the login page
BnpLoginSubmit(out) ==
    /\ bpc = "submit"
    /\ bpc' = "out"
    /\ IF out = "raise"
         THEN /\ bres' = "BrowserUnavailable"
              /\ UNCHANGED <<is_logging, bpage>>
         ELSE /\ bpage' = out
              /\ IF out = "LoginPage"
                   THEN bres' = "BrowserIncorrectPassword" /\ UNCHANGED is_logging
                   ELSE bres' = "ok" /\ is_logging' = FALSE
    /\ UNCHANGED <<password, rotating_password, has_cb, cblog, invs, swaps,
                   pw0, rot0, first, chg, bcalls>>

\* check_expired_password.inner: the first invocation of the operation,
\* with outcome out, and the except clause up to change_password
BnpCall(out) ==
    /\ bpc = "out"
    /\ bcalls < MaxBnpCalls
    /\ bcalls' = bcalls + 1
    /\ pw0' = password
    /\ rot0' = rotating_password
    /\ invs' = 1
    /\ swaps' = 0
    /\ cblog' = <<>>
    /\ first' = out
    /\ chg' = "none"
    /\ bpage' = IF out = "ok" THEN "AccountsList" ELSE bpage
    /\ IF out = "PasswordExpired" /\ rotating_password # "None"
         THEN bpc' = "change" /\ bres' = "none"
         ELSE bpc' = "out" /\ bres' = out
    /\ UNCHANGED <<is_logging, password, rotating_password, has_cb>>

\* change_password(self.rotating_password): the assertions, the request of
\* the change page, the switch of the attributes and the callback
BnpChangePassword(out) ==
    /\ bpc = "change"
    /\ IF ~IsSixDigits(rotating_password)
         THEN /\ out = "raise"
              /\ chg' = "AssertionError"
              /\ bres' = "AssertionError"
              /\ bpc' = "out"
              /\ UNCHANGED <<bpage, password, rotating_password, swaps, cblog>>
         ELSE IF out = "raise"
         THEN /\ chg' = "BrowserUnavailable"
              /\ bres' = "BrowserUnavailable"
              /\ bpc' = "out"
              /\ UNCHANGED <<bpage, password, rotating_password, swaps, cblog>>
         ELSE IF out # "ChangePasswordPage"
         THEN /\ bpage' = out
              /\ chg' = "AssertionError"
              /\ bres' = "AssertionError"
              /\ bpc' = "out"
              /\ UNCHANGED <<password, rotating_password, swaps, cblog>>
         ELSE /\ bpage' = out
              /\ password' = Swapped(password, rotating_password)[1]
              /\ rotating_password' = Swapped(password, rotating_password)[2]
              /\ swaps' = swaps + 1
              /\ cblog' = IF has_cb
                            THEN Append(cblog, <<rotating_password', password'>>)
                            ELSE cblog
              /\ chg' = "ok"
              /\ bpc' = "again"
              /\ UNCHANGED bres
    /\ UNCHANGED <<is_logging, has_cb, invs, pw0, rot0, first, bcalls>>

\* check_expired_password.inner: return func(self, *args, **kwargs) of the
\* except clause, outside any handler
BnpCallAgain(out) ==
    /\ bpc = "again"
    /\ invs' = invs + 1
    /\ bres' = out
    /\ bpc' = "out"
    /\ bpage' = IF out = "ok" THEN "AccountsList" ELSE bpage
    /\ UNCHANGED <<is_logging, password, rotating_password, has_cb, cblog,
                   swaps, pw0, rot0, first, chg, bcalls>>

\* --------------------------------------------------------------- HSBC ---
\* An account object is [obj, link, rib]: obj is the number of the listing
\* that created the object (its identity), link the number of the listing
\* its _link_id comes from, rib the number of the RIB page its RIB data come
\* from (0: none).

\* every listed account replaces the cached object
MergeReplace(cache, listed, stamp) ==
    [id \in DOMAIN cache \cup listed |->
        IF id \in listed THEN [obj |-> stamp, link |-> stamp, rib |-> 0]
        ELSE cache[id]]

\* update_accounts_list, the for loop: a listed account already cached gets
\* the new _link_id, another one is added
Merge(cache, listed, stamp) ==
    [id \in DOMAIN cache \cup listed |->
        IF id \in listed
        THEN IF id \in DOMAIN cache
             THEN [cache[id] EXCEPT !.link = stamp]
             ELSE [obj |-> stamp, link |-> stamp, rib |-> 0]
        ELSE cache[id]]

\* self.page.get_rib(self.accounts_list): the accounts in withrib get the
\* RIB data of the page
GetRib(cache, withrib, stamp) ==
    [id \in DOMAIN cache |->
        IF id \in withrib THEN [cache[id] EXCEPT !.rib = stamp] ELSE cache[id]]

\* update_accounts_list() when the site lists the accounts in listed: the
\* listing cannot be read (out = "nolist"), the RIB page cannot (out =
\* "norib"), or both are read
Updated(cache, listed, withrib, out, stamp) ==
    IF out = "nolist" THEN cache
    ELSE IF out = "norib" THEN Merge(cache, listed, stamp)
    ELSE GetRib(Merge(cache, listed, stamp), withrib \cap (DOMAIN cache \cup listed), stamp)

\* the flag is left as it is
GoneResetKept(g) == g

\* if self.app_gone: self.app_gone = False
GoneReset(g) == FALSE

\* update_accounts_list() called by the user of the browser
HsUpdate(listed, withrib, out) ==
    /\ hspc = "out"
    /\ hcalls < MaxHsCalls
    /\ fetches < MaxFetches
    /\ hcalls' = hcalls + 1
    /\ hop' = "update_accounts_list"
    /\ fetches' = fetches + 1
    /\ accounts_list' = Updated(accounts_list, listed, withrib, out, fetches + 1)
    /\ hsres' = IF out = "ok" THEN "ok" ELSE "BrowserUnavailable"
    /\ UNCHANGED <<app_gone, hspc, hid, hnavs, refreshes, navlink, liexc, hyield>>

\* get_accounts_list() consumed to its end: update_accounts_list() when the
\* cache is empty, then the cached accounts are yielded
HsGetAccountsList(listed, withrib, out) ==
    /\ hspc = "out"
    /\ hcalls < MaxHsCalls
    /\ hcalls' = hcalls + 1
    /\ hop' = "get_accounts_list"
    /\ IF DOMAIN accounts_list = {}
         THEN /\ fetches < MaxFetches
              /\ fetches' = fetches + 1
              /\ accounts_list' = Updated(accounts_list, listed, withrib, out, fetches + 1)
              /\ hsres' = IF out = "ok" THEN "ok" ELSE "BrowserUnavailable"
              /\ hyield' = IF out = "ok" THEN DOMAIN accounts_list' ELSE {}
         ELSE /\ listed = {}
              /\ withrib = {}
              /\ out = "ok"
              /\ hsres' = "ok"
              /\ hyield' = DOMAIN accounts_list
              /\ UNCHANGED <<fetches, accounts_list>>
    /\ UNCHANGED <<app_gone, hspc, hid, hnavs, refreshes, navlink, liexc>>

\* get_history(account) of a life-insurance account, and get_investments:
\* _go_to_life_insurance ends as out says; the handler of XMLSyntaxError
\* calls self.quit_li_space(), a name the class does not define
HsLifeInsurance(o, out) ==
    /\ hspc = "out"
    /\ hcalls < MaxHsCalls
    /\ hcalls' = hcalls + 1
    /\ hop' = o
    /\ liexc' = out
    /\ hsres' = CASE out = "ok" -> "records"
                  [] out = "XMLSyntaxError" -> "AttributeError"
                  [] OTHER -> out
    /\ UNCHANGED <<accounts_list, app_gone, hspc, hid, fetches, hnavs,
                   refreshes, navlink, hyield>>

\* get_history(account) of another account up to "if self.app_gone": the
\* link of the cached account is requested
HsHistory(id, out) ==
    /\ hspc = "out"
    /\ hcalls < MaxHsCalls
    /\ hcalls' = hcalls + 1
    /\ hop' = "get_history"
    /\ hid' = id
    /\ liexc' = "none"
    /\ refreshes' = 0
    /\ IF id \notin DOMAIN accounts_list
         THEN /\ out = "ok"
              /\ hsres' = "KeyError"
              /\ hnavs' = 0
              /\ UNCHANGED <<app_gone, hspc, navlink>>
         ELSE /\ hnavs' = 1
              /\ navlink' = accounts_list[id].link
              /\ IF out = "HTTPNotFound"
                   THEN /\ app_gone' = TRUE
                        /\ hspc' = "gone"
                        /\ hsres' = "none"
                   ELSE /\ hsres' = IF out = "ok" THEN "records" ELSE out
                        /\ UNCHANGED <<app_gone, hspc>>
    /\ UNCHANGED <<accounts_list, fetches, hyield>>

\* get_history: self.app_gone = False; self.update_accounts_list()
HsHistoryRefresh(listed, withrib, out) ==
    /\ hspc = "gone"
    /\ app_gone
    /\ fetches < MaxFetches
    /\ app_gone' = GoneReset(app_gone)
    /\ fetches' = fetches + 1
    /\ refreshes' = refreshes + 1
    /\ accounts_list' = Updated(accounts_list, listed, withrib, out, fetches + 1)
    /\ IF out = "ok"
         THEN hspc' = "renav" /\ UNCHANGED hsres
         ELSE hspc' = "out" /\ hsres' = "BrowserUnavailable"
    /\ UNCHANGED <<hop, hid, hnavs, navlink, liexc, hyield, hcalls>>

\* get_history: self.location(self.accounts_list[account.id]._link_id)
\* after the refresh, outside any handler, and the rest of the method
HsHistoryRenav(out) ==
    /\ hspc = "renav"
    /\ hspc' = "out"
    /\ hnavs' = hnavs + 1
    /\ navlink' = accounts_list[hid].link
    /\ hsres' = IF out = "ok" THEN "records" ELSE out
    /\ UNCHANGED <<accounts_list, app_gone, hop, hid, fetches, refreshes,
                   liexc, hyield, hcalls>>

\* ------------------------------------------------------ specification ---
Next ==
    \/ \E e \in ProducerExc : WrapperRaises(e) /\ UNCHANGED <<loginVars, gateVars, navVars, restVars>>
    \/ \E v \in Values : WrapperValue(v) /\ UNCHANGED <<loginVars, gateVars, navVars, restVars>>
    \/ \E d \in Producers : WrapperIter(d) /\ UNCHANGED <<loginVars, gateVars, navVars, restVars>>
    \/ NextExhausted /\ UNCHANGED <<loginVars, gateVars, navVars, restVars>>
    \/ \E d \in Producers : RecreateIter(d) /\ UNCHANGED <<loginVars, gateVars, navVars, restVars>>
    \/ \E e \in ProducerExc : RecreateRaises(e) /\ UNCHANGED <<loginVars, gateVars, navVars, restVars>>
    \/ ReplayRecord /\ UNCHANGED <<loginVars, gateVars, navVars, restVars>>
    \/ ReplayStop /\ UNCHANGED <<loginVars, gateVars, navVars, restVars>>
    \/ \E e \in ProducerExc : ReplayRaises(e) /\ UNCHANGED <<loginVars, gateVars, navVars, restVars>>
    \/ PullRecord /\ UNCHANGED <<loginVars, gateVars, navVars, restVars>>
    \/ PullStop /\ UNCHANGED <<loginVars, gateVars, navVars, restVars>>
    \/ \E e \in ProducerExc : PullRaises(e) /\ UNCHANGED <<loginVars, gateVars, navVars, restVars>>

Spec == Init /\ [][Next]_vars

\* iter_retry.__init__ has exc_check=Exception as its default: the same call
\* with either transient class
InitAny ==
    /\ RetryInit
    /\ excCheck \in {"LoggedOut", "Exception"}
    /\ LoginInit
    /\ OtherInit
    /\ RestInit

SpecAny == InitAny /\ [][Next]_vars

\* the login flow of the browser, outside any retried call
LoginNext ==
    \/ LoginEnter /\ UNCHANGED <<retryVars, gateVars, navVars, restVars>>
    \/ \E p \in PageKinds : LoginLocation(p) /\ UNCHANGED <<retryVars, gateVars, navVars, restVars>>
    \/ \E p \in PageKinds : LoginSubmit(p) /\ UNCHANGED <<retryVars, gateVars, navVars, restVars>>
    \/ LoginCheck /\ UNCHANGED <<retryVars, gateVars, navVars, restVars>>
    \/ LoginFinally /\ UNCHANGED <<retryVars, gateVars, navVars, restVars>>
    \/ \E p \in PageKinds : OpNavigate(p) /\ UNCHANGED <<retryVars, gateVars, navVars, restVars>>

SpecLogin == Init /\ [][LoginNext]_vars

\* the browser requesting pages of the bank's site
PagesNext ==
    \E u \in Urls : Location(u) /\ UNCHANGED <<retryVars, gateVars, restVars>>

SpecPages == Init /\ [][PagesNext]_vars

\* the operation body may run although the gate was not passed, once the
\* first invocation is over: need_login applied outside retry
BodyMayRunFirstOnly == gate = "open" \/ (gate = "closed" /\ pc # "wrapper")

\* @retry(LoggedOut) is applied to the need_login wrapper: the function the
\* retry machinery invokes (func in retry.wrapper, cb in iter_retry) runs the
\* operation body only after the gate has let the call through
BodyMayRun == gate = "open"

\* a retried call of a need_login operation on a session that may expire
GateNext ==
    \/ GateLogin /\ UNCHANGED <<retryVars, navVars, restVars>>
    \/ GateSkip /\ UNCHANGED <<retryVars, navVars, restVars>>
    \/ \E p \in PageKinds :
          gate = "login" /\ LoginLocation(p)
          /\ UNCHANGED <<retryVars, gateVars, navVars, restVars>>
    \/ \E p \in PageKinds :
          gate = "login" /\ LoginSubmit(p)
          /\ UNCHANGED <<retryVars, gateVars, navVars, restVars>>
    \/ gate = "login" /\ LoginCheck
          /\ UNCHANGED <<retryVars, gateVars, navVars, restVars>>
    \/ GateLoginDone /\ UNCHANGED <<retryVars, navVars, restVars>>
    \/ gate = "failed" /\ pc = "wrapper" /\ WrapperRaises(lexc)
          /\ gate' = "closed" /\ UNCHANGED <<loginVars, navVars, restVars>>
    \/ gate = "failed" /\ pc # "wrapper" /\ RecreateRaises(lexc)
          /\ gate' = "closed" /\ UNCHANGED <<loginVars, navVars, restVars>>
    \/ \E e \in ProducerExc :
          BodyMayRun /\ WrapperRaises(e)
          /\ gate' = "closed" /\ OperationFrame(e) /\ UNCHANGED <<navVars, restVars>>
    \/ \E v \in Values :
          BodyMayRun /\ WrapperValue(v)
          /\ gate' = "closed" /\ OperationFrame(v) /\ UNCHANGED <<navVars, restVars>>
    \/ \E d \in Producers :
          BodyMayRun /\ WrapperIter(d)
          /\ gate' = "closed" /\ OperationFrame("iter") /\ UNCHANGED <<navVars, restVars>>
    \/ \E d \in Producers :
          BodyMayRun /\ RecreateIter(d)
          /\ gate' = "closed" /\ OperationFrame("iter") /\ UNCHANGED <<navVars, restVars>>
    \/ \E e \in ProducerExc :
          BodyMayRun /\ RecreateRaises(e)
          /\ gate' = "closed" /\ OperationFrame(e) /\ UNCHANGED <<navVars, restVars>>
    \/ gate = "closed" /\ NextExhausted
          /\ UNCHANGED <<loginVars, gateVars, navVars, restVars>>
    \/ gate = "closed" /\ ReplayRecord
          /\ OperationFrame("record") /\ UNCHANGED <<gateVars, navVars, restVars>>
    \/ gate = "closed" /\ ReplayStop
          /\ OperationFrame("StopIteration") /\ UNCHANGED <<gateVars, navVars, restVars>>
    \/ \E e \in ProducerExc :
          gate = "closed" /\ ReplayRaises(e)
          /\ OperationFrame(e) /\ UNCHANGED <<gateVars, navVars, restVars>>
    \/ gate = "closed" /\ PullRecord
          /\ OperationFrame("record") /\ UNCHANGED <<gateVars, navVars, restVars>>
    \/ gate = "closed" /\ PullStop
          /\ OperationFrame("StopIteration") /\ UNCHANGED <<gateVars, navVars, restVars>>
    \/ \E e \in ProducerExc :
          gate = "closed" /\ PullRaises(e)
          /\ OperationFrame(e) /\ UNCHANGED <<gateVars, navVars, restVars>>

SpecGate == Init /\ [][GateNext]_vars

\* calls of go_on_accounts_list on one browser
GoNext ==
    \/ GoCall /\ UNCHANGED notGoVars
    \/ \E out \in GoOutcomes, pop \in BOOLEAN, short \in BOOLEAN :
          GoRequest(out, pop, short) /\ UNCHANGED notGoVars
    \/ GoExhausted /\ UNCHANGED notGoVars

SpecAccounts == Init /\ [][GoNext]_vars

\* one paginated operation of a browser, consumed to its end
PagNext ==
    \/ \E gi \in BOOLEAN, out \in {"ok", "BrokenPageError"},
          n \in 0..MaxPerPage, m \in 0..(MaxPages - 1) :
          AccStart(gi, out, n, m) /\ UNCHANGED notPagVars
    \/ AccNext /\ UNCHANGED notPagVars
    \/ \E out \in {"ok", "LoggedOut", "BrokenPageError"},
          n \in 0..MaxPerPage, m \in 0..(MaxPages - 1) :
          AccFollow(out, n, m) /\ UNCHANGED notPagVars
    \/ AccListed /\ UNCHANGED notPagVars
    \/ \E out \in {"ok", "LoggedOut"} : AccIban(out) /\ UNCHANGED notPagVars
    \/ AccIbanEnd /\ UNCHANGED notPagVars
    \/ \E out \in {"page", "empty", "LoggedOut"}, n \in 0..MaxPerPage :
          HistStart(out, n) /\ UNCHANGED notPagVars
    \/ \E h \in BOOLEAN : HistAssert(h) /\ UNCHANGED notPagVars
    \/ HistYield /\ UNCHANGED notPagVars
    \/ \E nx \in {"None", "params"}, out \in {"page", "LoggedOut"},
          n \in 0..MaxPerPage :
          HistNextParams(nx, out, n) /\ UNCHANGED notPagVars

SpecPaging == Init /\ [][PagNext]_vars

\* logins and calls of a check_expired_password operation on a BNPorc browser
BnpNext ==
    \/ \E out \in {"LoginPage", "raise"} : BnpLogin(out) /\ UNCHANGED notBnpVars
    \/ \E out \in {"LoginPage", "AccountsList", "raise"} :
          BnpLoginSubmit(out) /\ UNCHANGED notBnpVars
    \/ \E out \in {"ok", "PasswordExpired", "BrowserUnavailable"} :
          BnpCall(out) /\ UNCHANGED notBnpVars
    \/ \E out \in {"ChangePasswordPage", "ConfirmPage", "raise"} :
          BnpChangePassword(out) /\ UNCHANGED notBnpVars
    \/ \E out \in {"ok", "PasswordExpired", "BrowserUnavailable"} :
          BnpCallAgain(out) /\ UNCHANGED notBnpVars

\* a BNPorc browser built with or without a rotating password, of six
\* digits or not, and with or without a callback
InitBnp ==
    /\ RetryInit
    /\ excCheck = "LoggedOut"
    /\ LoginInit
    /\ OtherInit
    /\ GoInit
    /\ PagInit
    /\ HsbcInit
    /\ BnpBuilt({"None", "222222", "abc"}, BOOLEAN)

SpecBnp == InitBnp /\ [][BnpNext]_vars

\* calls on one HSBC browser
HsbcNext ==
    \/ \E listed \in SUBSET AccountIds, withrib \in SUBSET AccountIds,
          out \in {"ok", "nolist", "norib"} :
          HsUpdate(listed, withrib, out) /\ UNCHANGED notHsbcVars
    \/ \E listed \in SUBSET AccountIds, withrib \in SUBSET AccountIds,
          out \in {"ok", "nolist", "norib"} :
          HsGetAccountsList(listed, withrib, out) /\ UNCHANGED notHsbcVars
    \/ \E o \in {"get_history", "get_investments"},
          out \in {"ok", "XMLSyntaxError", "BrowserUnavailable"} :
          HsLifeInsurance(o, out) /\ UNCHANGED notHsbcVars
    \/ \E id \in AccountIds, out \in {"ok", "HTTPNotFound", "BrowserUnavailable"} :
          HsHistory(id, out) /\ UNCHANGED notHsbcVars
    \/ \E listed \in SUBSET AccountIds, withrib \in SUBSET AccountIds,
          out \in {"ok", "nolist", "norib"} :
          HsHistoryRefresh(listed, withrib, out) /\ UNCHANGED notHsbcVars
    \/ \E out \in {"ok", "HTTPNotFound", "BrowserUnavailable"} :
          HsHistoryRenav(out) /\ UNCHANGED notHsbcVars

SpecHsbc == Init /\ [][HsbcNext]_vars

TypeOK ==
    /\ pc \in {"wrapper", "idle", "enter", "replay", "pull", "done"}
    /\ i \in 0..Tries
    /\ it \in {"None", "iter"}
    /\ data \in Producers
    /\ pos \in 0..Len(data)
    /\ remaining \in 0..Tries
    /\ calls \in 0..MaxCalls

C2_ConsistencyEnforced ==
    [][ /\ ( /\ pc = "replay"
             /\ pos < Len(data)
             /\ items[nb + 2] # data[pos + 1]
             /\ ev' = Ev("replay", "record") )
           => (pc' = "idle" /\ result' = Res("inconsistent", ""))
        /\ "inconsistent" \in seen => consumer' = consumer ]_vars

\* C3: when the recreated producer ends before every emitted record has been
\* yielded again, the next() call that replays fails with the short-replay
\* error: it returns no record and no normal end-of-data.
C3_ShortReplay ==
    ev = Ev("replay", "StopIteration") =>
        /\ pc = "idle"
        /\ result = Res("short", "")
        /\ pos < Len(items)
        /\ consumer = items

\* a replay ran out of records after confirming at least one of them
C3_Witness ==
    /\ ev = Ev("replay", "StopIteration")
    /\ result.kind = "short"
    /\ pos >= 1

\* C4: when every attempt raised the transient exception, the call fails with
\* the exhausted-retries error after exactly Tries invocations of the
\* decorated function, and the consumer holds a prefix of the true sequence.
C4_BudgetExhaustion ==
    (result.kind = "exhausted" /\ clean /\ fails = calls) =>
        /\ calls = Tries
        /\ det /\ truth # <<>> => IsPrefix(consumer, truth[1])

\* C5: a decorated function returning a simple value is invoked again after
\* each transient exception and at most Tries times; the wrapper returns the
\* value of the first invocation that succeeds (also when it is the 4th) and
\* raises the exhausted-retries error when all 4 invocations failed.
C5_SingleValue ==
    /\ pc \in {"wrapper", "done"} => calls <= Tries /\ i = Tries - fails
    /\ result.kind = "value" =>
           /\ pc = "done"
           /\ calls = fails + 1
           /\ ev = Ev("factory", result.val)
    /\ (pc = "done" /\ result.kind = "exhausted") =>
           (calls = Tries /\ fails = Tries)
    /\ (pc = "wrapper" /\ calls > 0) => (fails = calls /\ fails < Tries)

\* three invocations failed and the fourth returned the value
C5_Witness ==
    /\ result.kind = "value"
    /\ fails = 3
    /\ calls = 4

\* C6: an exception outside exc_check raised by the decorated function or by
\* the producer (while replaying or pulling) reaches the caller in the same
\* step: the function is not invoked again, and the budget and the emitted
\* buffer are unchanged.
C6_OnlyTransientRetried ==
    [][ \A e \in ProducerExc :
          (excCheck = "LoggedOut" /\ e # "LoggedOut" /\ ev'.out = e) =>
              /\ pc' \in {"idle", "done"}
              /\ result' = Res("raised", e)
              /\ calls' = calls + (IF ev'.src = "factory" THEN 1 ELSE 0)
              /\ remaining' = remaining
              /\ items' = items
              /\ consumer' = consumer ]_vars

\* the producer raised a non-transient exception during a replay and the
\* consumer got it
C6_Witness ==
    /\ ev = Ev("replay", "BrokenPageError")
    /\ result = Res("raised", "BrokenPageError")
    /\ pc = "idle"
    /\ Len(items) >= 1

\* C7: while budget remains, no next() call ends by raising an exception of
\* the transient class to the consumer.
C7_RetriesInvisible ==
    ~ ( /\ pc = "idle"
        /\ result.kind = "raised"
        /\ IsInstance(result.val, excCheck)
        /\ remaining > 0 )

\* C8: whenever next() returns a record, the records handed to the consumer
\* are exactly what the current producer has yielded, position by position.
C8_NoInconsistentData ==
    result.kind = "record" => consumer = Yielded

\* C9: the decorated function is invoked at most Tries times per logical
\* call, and remaining stays within 0..Tries.
C9_AtMostTries ==
    /\ calls <= Tries
    /\ remaining \in 0..Tries

\* C10: during do_login the counter no_login is positive and a navigation
\* landing on a page that looks logged out does not raise LoggedOut.
C10_LoginSuppression ==
    where = "do_login" =>
        /\ lexc # "LoggedOut"
        /\ lpc \in {"location", "submit", "check"} => no_login > 0

\* do_login has landed on the login page after submitting the credentials
C10_Witness ==
    /\ where = "do_login"
    /\ lpc = "check"
    /\ page = "LoginPage"
    /\ no_login > 0
    /\ lexc = "none"

\* C11: no_login is a balanced guard: it is never negative, it is 1 from the
\* entry of do_login to its exit and 0 whenever no do_login executes, whether
\* do_login returned or raised; entry adds exactly one and exit removes
\* exactly one.
C11_BalancedGuard ==
    /\ [](no_login >= 0 /\ no_login = (IF where = "do_login" THEN 1 ELSE 0))
    /\ [][ /\ (where = "caller" /\ where' = "do_login")
               => no_login' = no_login + 1
           /\ (where = "do_login" /\ where' = "caller")
               => no_login' = no_login - 1 ]_vars

\* a second login attempt ended with BrowserIncorrectPassword
C11_Witness ==
    /\ where = "caller"
    /\ lexc = "BrowserIncorrectPassword"
    /\ logins >= 2
    /\ no_login = 0

\* C13: do_login entered in an authenticated state requests nothing and
\* leaves the current page as it is.
C13_LoginNoOpWhenLogged ==
    [][ (where = "do_login" /\ lpc = "location" /\ PageLogged(page))
          => (page' = page /\ lpc' = "finally") ]_vars

\* C17: after next() failed with the short-replay error, no later next() on
\* the same iterator returns a record or a normal end-of-data.
C17_ShortReplayPermanent ==
    [][ "short" \in seen =>
          /\ consumer' = consumer
          /\ pc' = "idle" => result'.kind \notin {"record", "stop"} ]_vars

\* C18: once remaining is 0, every next() raises the exhausted-retries error
\* at once: the decorated function is not invoked, no producer is pulled and
\* the emitted buffer is unchanged.
C18_ExhaustionPermanent ==
    /\ [](remaining = 0 => (pc \in {"idle", "enter"} /\ it = "None"))
    /\ [][ remaining = 0 =>
              /\ pc' = "idle"
              /\ result' = Res("exhausted", "")
              /\ ev' = Ev("none", "none")
              /\ calls' = calls
              /\ items' = items
              /\ consumer' = consumer
              /\ remaining' = 0 ]_vars

\* the exhausted-retries error was raised to a consumer that holds a record
C18_Witness ==
    /\ remaining = 0
    /\ pc = "idle"
    /\ result = Res("exhausted", "")
    /\ Len(consumer) >= 1

\* C19: iter_retry.items changes only by appending the record that the same
\* next() call returns, and always equals the sequence of records returned
\* to the consumer.
C19_ResumeBuffer ==
    /\ [](items = consumer)
    /\ [][ items' # items =>
              /\ pc' = "idle"
              /\ result'.kind = "record"
              /\ items' = Append(items, result'.val) ]_vars

\* a record was returned after a failure and a replay of the buffer
C19_Witness ==
    /\ result.kind = "record"
    /\ nb >= 0
    /\ fails >= 1
    /\ Len(items) = 2

\* C20: with only transient failures, next() reports a normal end-of-data
\* only when the current producer ended while pulling, after it had yielded
\* again every emitted record.
C20_NormalEnd ==
    (result.kind = "stop" /\ clean) =>
        /\ ev = Ev("pull", "StopIteration")
        /\ pos = Len(data)
        /\ items = Yielded

\* C16: a replay mismatch is never retried, whatever the transient class: the
\* step that finds it ends next() without consuming budget, and afterwards
\* the decorated function is not invoked again and the budget is unchanged.
C16_MismatchNotRetried ==
    [][ /\ ( /\ pc = "replay"
             /\ pos < Len(data)
             /\ items[nb + 2] # data[pos + 1]
             /\ ev' = Ev("replay", "record") )
           => (pc' = "idle" /\ remaining' = remaining /\ it' = it)
        /\ "inconsistent" \in seen
           => (calls' = calls /\ remaining' = remaining) ]_vars

\* C14 as stated: a BrokenPageError raised inside a retry-wrapped operation
\* is handled as transient: while budget remains it is not handed to the
\* caller.
C14_BrokenPageRetried ==
    (ev.out = "BrokenPageError" /\ result = Res("raised", "BrokenPageError"))
        => IF pc = "done" THEN i <= 1 ELSE remaining <= 1

\* C14 as amended: under retry(LoggedOut) a BrokenPageError is not transient:
\* the step in which the operation raises it hands it to the caller, with no
\* further invocation and with the loop variable, the budget and the count of
\* transient failures unchanged, even while budget remains.
C14_BrokenPagePropagates ==
    [][ ev'.out = "BrokenPageError" =>
          /\ pc' = (IF pc = "wrapper" THEN "done" ELSE "idle")
          /\ result' = Res("raised", "BrokenPageError")
          /\ i' = i
          /\ remaining' = remaining
          /\ fails' = fails
          /\ calls' = (IF ev'.src = "factory" THEN calls + 1 ELSE calls)
          /\ ~clean' ]_vars

\* the operation raised BrokenPageError while pulling, with budget left, and
\* the consumer got it
C14_Witness ==
    /\ ev = Ev("pull", "BrokenPageError")
    /\ result = Res("raised", "BrokenPageError")
    /\ pc = "idle"
    /\ remaining > 1

C12_InvalidCredentialsTerminal ==
    /\ [](gate = "failed" => (lexc = "BrowserIncorrectPassword" /\ AtFactory))
    /\ [][ /\ (where = "do_login" /\ lpc = "check" /\ page = "LoginPage")
               => (lexc' = "BrowserIncorrectPassword" /\ lpc' = "finally")
           /\ gate = "failed"
               => /\ pc' = (IF pc = "wrapper" THEN "done" ELSE "idle")
                  /\ result' = Res("raised", "BrowserIncorrectPassword")
                  /\ logins' = logins
                  /\ calls' = calls + 1
                  /\ i' = i
                  /\ remaining' = remaining
                  /\ gate' = "closed" ]_vars

\* the session expired after a record was returned, the login of the
\* recreation failed and the consumer got BrowserIncorrectPassword
C12_Witness ==
    /\ result = Res("raised", "BrowserIncorrectPassword")
    /\ pc = "idle"
    /\ Len(consumer) >= 1
    /\ logins >= 2
    /\ remaining > 0

\* C21: every invocation of the factory, the first one by the retry wrapper
\* and every recreation by iter_retry, has passed the login gate: the
\* operation body starts only when the gate is open, on a page that was
\* loaded and is not the login page, and the first step of a replay follows
\* such a start; an invocation stopped by the gate runs no step of the body.
C21_GateBeforeRestart ==
    [][ /\ (calls' = calls + 1 /\ gate # "failed")
            => (gate = "open" /\ page \notin {"None", "LoginPage"})
        /\ (calls' = calls + 1 /\ gate = "failed")
            => (ev'.out = lexc /\ it' = it /\ consumer' = consumer)
        /\ (pc # pc' /\ pc' \in {"replay", "pull"} /\ pc \notin {"replay", "pull"})
            => (calls' = calls + 1 \/ it = "iter") ]_vars

\* the session expired after a record was returned, the recreation logged in
\* again and the replay of the returned record is about to start
C21_Witness ==
    /\ pc = "replay"
    /\ Len(items) >= 1
    /\ logins >= 2
    /\ fails >= 1
    /\ gate = "closed"
    /\ page = "AccountsPage"

\* C22: go_on_accounts_list requests the candidates of the list in list
\* order, every request before the last one of a call gave an error page (no
\* candidate after the first accepted one is requested), and the call raises
\* BrokenPageError exactly when every candidate of the list gave an error
\* page.
C22_FirstNonErrorCandidate ==
    /\ Len(tried) = Len(outs)
    /\ Len(tried) <= Len(cands)
    /\ \A k \in 1..Len(tried) : tried[k] = cands[k]
    /\ \A k \in 1..(Len(outs) - 1) : outs[k] = "error"
    /\ gpc = "loop" => \A k \in 1..Len(outs) : outs[k] = "error"
    /\ (gpc = "idle" /\ gres # "none") =>
          /\ gres = "BrokenPageError"
                <=> (Len(outs) = Len(cands) /\ \A k \in 1..Len(outs) : outs[k] = "error")
          /\ gres = "ok" <=> outs[Len(outs)] = "page"

\* the third candidate of the full list was the first one accepted
C22_Witness ==
    /\ gpc = "idle"
    /\ gres = "ok"
    /\ cands = ClassAccountUrls
    /\ tried = <<"mesComptes", "mesComptesPRO", "maSyntheseGratuite">>
    /\ outs = <<"error", "error", "page">>

\* C25 as stated: the candidate table is not narrowed by an earlier success,
\* so every BrokenPageError of go_on_accounts_list is raised after all the
\* candidate entry points of the table of the class were requested.
C25_FallbackAfterSuccess ==
    (gpc = "idle" /\ gres = "BrokenPageError") => tried = ClassAccountUrls

\* C25 amended: a call that accepts candidate c narrows the table of the
\* browser to c alone and nothing widens it again: every later call on that
\* browser requests c only, and raises BrokenPageError as soon as c gives an
\* error page, without requesting any other candidate.
C25_NarrowedAfterSuccess ==
    /\ []((gpc = "idle" /\ gres = "ok") => ACCOUNT_URLS = <<tried[Len(tried)]>>)
    /\ [](ACCOUNT_URLS = ClassAccountUrls \/ Len(ACCOUNT_URLS) = 1)
    /\ []((gpc = "idle" /\ gres = "BrokenPageError" /\ Len(ACCOUNT_URLS) = 1)
             => (tried = ACCOUNT_URLS /\ outs = <<"error">>))
    /\ [][ /\ (Len(ACCOUNT_URLS) = 1 => ACCOUNT_URLS' = ACCOUNT_URLS)
            /\ (Len(ACCOUNT_URLS) = 1 /\ tried' # tried /\ tried' # <<>>)
                  => tried' = ACCOUNT_URLS ]_vars

\* the second candidate was accepted by the first call; the second call got
\* an error page for it and raised BrokenPageError at once
C25_Witness ==
    /\ gpc = "idle"
    /\ gres = "BrokenPageError"
    /\ gcalls = 2
    /\ ACCOUNT_URLS = <<"mesComptesPRO">>
    /\ tried = <<"mesComptesPRO">>

C26_IbanSameOrder ==
    op = "accounts" =>
        /\ IsPrefix(yielded, surfaced)
        /\ (ppc = "done" /\ pres = "end") => yielded = surfaced
        /\ ~get_iban => ibans = <<>>
        /\ get_iban =>
              /\ IsPrefix(yielded, ibans)
              /\ Len(ibans) <= Len(yielded) + 1
              /\ (yielded # <<>> \/ ibans # <<>>)
                    => /\ ppc \in {"iban", "done"}
                       /\ next_pages = <<>>
                       /\ accounts = surfaced

\* with get_iban, three accounts found on two pages were yielded, each
\* after its IBAN page
C26_Witness ==
    /\ op = "accounts"
    /\ get_iban
    /\ ppc = "done"
    /\ pres = "end"
    /\ pnavs = 2
    /\ Len(yielded) = 3
    /\ ibans = yielded

\* C24: is_logging is True only while login() is executing: outside login()
\* the flag is False, so is_logged() is False whenever the browser is on the
\* login page outside of a login attempt.
C24_FlagOnlyDuringLogin ==
    bpc # "submit" => (~is_logging /\ (bpage = "LoginPage" => ~IsLogged))

\* C27: a call whose first invocation raised PasswordExpired with a rotating
\* password configured, and whose change_password returned, switched the
\* password once (password and rotating_password are exchanged, the callback,
\* when set, got the old then the new password once), invoked the operation
\* a second and last time and ended as that invocation did; when
\* change_password raised, or with no rotating password, nothing was switched
\* and the operation was not invoked again, its exception being the result.
C27_ExpiredPasswordSwitchedOnce ==
  /\ [][bpc = "again" => /\ bpc' = "out"
                         /\ invs' = 2
                         /\ swaps' = swaps
                         /\ password' = password
                         /\ bres' \in {"ok", "PasswordExpired", "BrowserUnavailable"}]_vars
  /\ [](
    /\ swaps <= 1
    /\ invs <= 2
    /\ bpc = "again" => (first = "PasswordExpired" /\ invs = 1 /\ swaps = 1)
    /\ (bpc = "out" /\ first = "PasswordExpired" /\ rot0 # "None" /\ chg = "ok")
          => /\ swaps = 1
             /\ invs = 2
             /\ password = rot0
             /\ rotating_password = pw0
             /\ cblog = IF has_cb THEN << <<pw0, rot0>> >> ELSE <<>>
    /\ (bpc = "out" /\ first = "PasswordExpired" /\ rot0 # "None" /\ chg # "ok")
          => /\ swaps = 0
             /\ invs = 1
             /\ bres = chg
             /\ cblog = <<>>
             /\ password = pw0
             /\ rotating_password = rot0
    /\ (bpc = "out" /\ first = "PasswordExpired" /\ rot0 = "None")
          => /\ swaps = 0
             /\ invs = 1
             /\ bres = "PasswordExpired"
             /\ cblog = <<>>
             /\ password = pw0
             /\ rotating_password = "None" )

\* the password had expired, it was switched, the callback was told, and
\* the second invocation raised PasswordExpired, which is the result
C27_Witness ==
    /\ bpc = "out"
    /\ first = "PasswordExpired"
    /\ bres = "PasswordExpired"
    /\ invs = 2
    /\ swaps = 1
    /\ password = "222222"
    /\ rotating_password = "111111"
    /\ cblog = << <<"111111", "222222">> >>

\* C28: get_history recovers at most once from a lost session: the link is
\* requested at most twice and the cache refreshed at most once per call, the
\* refresh follows the HTTPNotFound of the first request only, the second
\* request uses the link the cache holds after the refresh and ends the call
\* whatever it gives, and app_gone is False whenever get_history is not
\* executing, also when the refresh or the second request raised.
C28_RecoversOnce ==
    /\ [](hspc = "out" => ~app_gone)
    /\ [](hop = "get_history" => (refreshes <= 1 /\ hnavs <= 2))
    /\ [](hspc = "gone" => (app_gone /\ refreshes = 0 /\ hnavs = 1))
    /\ [](hspc = "renav" => (~app_gone /\ refreshes = 1 /\ hnavs = 1))
    /\ []((hop = "get_history" /\ hnavs = 2) => refreshes = 1)
    /\ [][hspc = "gone" => (~app_gone' /\ fetches' = fetches + 1 /\ hnavs' = hnavs)]_vars
    /\ [][hspc = "renav" =>
            /\ hspc' = "out"
            /\ hnavs' = 2
            /\ fetches' = fetches
            /\ navlink' = accounts_list[hid].link
            /\ hsres' \in {"records", "HTTPNotFound", "BrowserUnavailable"}]_vars

\* the link of a1 gave HTTPNotFound, the cache was refreshed by the second
\* listing, the new link gave HTTPNotFound too and that was the result
C28_Witness ==
    /\ hop = "get_history"
    /\ hspc = "out"
    /\ hid = "a1"
    /\ hnavs = 2
    /\ refreshes = 1
    /\ fetches = 2
    /\ navlink = 2
    /\ hsres = "HTTPNotFound"
    /\ ~app_gone

\* C29: when entering the life-insurance space raises XMLSyntaxError,
\* get_history and get_investments return an empty sequence and no exception
\* reaches the caller.
C29_LifeInsuranceErrorSwallowed ==
    (hspc = "out" /\ hop \in {"get_history", "get_investments"}
        /\ liexc = "XMLSyntaxError") => hsres = "empty"

\* C30: no step removes an entry of accounts_list or replaces a cached
\* account object, the cache changes only when a listing is fetched,
\* and get_accounts_list fetches a listing exactly when the cache is empty;
\* otherwise it leaves the cache as it is and yields the cached accounts.
C30_CacheOnlyGrows ==
    [][ /\ \A id \in DOMAIN accounts_list :
              /\ id \in DOMAIN accounts_list'
              /\ accounts_list'[id].obj = accounts_list[id].obj
        /\ accounts_list' # accounts_list => fetches' = fetches + 1
        /\ hop' = "get_accounts_list" =>
              /\ fetches' # fetches <=> DOMAIN accounts_list = {}
              /\ DOMAIN accounts_list # {} =>
                    (accounts_list' = accounts_list /\ hyield' = DOMAIN accounts_list)
      ]_vars

\* a1 was cached by the first listing and got the link of the second one,
\* which added a2; get_accounts_list then yielded both from the cache
C30_Witness ==
    /\ hop = "get_accounts_list"
    /\ fetches = 2
    /\ DOMAIN accounts_list = {"a1", "a2"}
    /\ accounts_list["a1"].obj = 1
    /\ accounts_list["a1"].link = 2
    /\ accounts_list["a2"].obj = 2
    /\ hyield = {"a1", "a2"}

====
